---- MODULE Spec2Model ----
(***************************************************************************)
(* Model of the xyzvec crate: the two vector types XYVec<T> (src/src/xy.rs)*)
(* and XYZVec<T> (src/src/xyz.rs) over a scalar type T: VecInner           *)
(* (src/src/lib.rs).                                                       *)
(*                                                                         *)
(* Scalars.  A scalar value is a record [k, n]:                            *)
(*   k = "fin"   a finite value; for the fixed-point type n is the raw     *)
(*               two's-complement integer (value = n / 2^FracBits), for    *)
(*               the float types n is the (integer) value itself;          *)
(*   k = "inf"   float infinity of sign n (1 or -1);                       *)
(*   k = "nan"   float NaN;                                                *)
(*   k = "panic" the evaluation panicked (the thread unwinds): absorbing.  *)
(*                                                                         *)
(* The fixed-point scalar is the `fixed` crate's signed type with          *)
(* FracBits = 4 fractional bits, as in the crate's tests (I28F4).  Its     *)
(* arithmetic is modelled at WordBits = 16 (fixed::FixedI16, the same      *)
(* generic code as FixedI32 at a width whose double-width products the     *)
(* model checker can hold); all values used by the crate's tests fit.      *)
(* `+ - * / neg` on that type panic on overflow when the build has         *)
(* overflow checks / debug assertions and wrap otherwise: the variable     *)
(* checks is the build's choice.  Division by zero always panics.          *)
(*                                                                         *)
(* The float types f32 and f64 are modelled on integer-valued inputs, on   *)
(* which + - * are exact; / is only applied where the quotient is exact,   *)
(* the divisor is zero or an operand is not finite (see FloatDivExact).    *)
(* The inputs do not contain -0.0: 0 stands for either zero, which `==`    *)
(* identifies.  Angles are whole quarter turns, on which sin and cos are   *)
(* taken to be exactly 0, 1 or -1.                                         *)
(***************************************************************************)
EXTENDS Integers, Sequences, FiniteSets, TLC

VARIABLES ty, checks, a, op, arg, out

vars == <<ty, checks, a, op, arg, out>>

\* ------------------------------------------------------------------------
\* Bounds of the model
\* ------------------------------------------------------------------------

\* how many entries of FixedPool are fixed-point inputs
NumFixedScalars == 4

\* how many entries of FloatPool are float inputs
NumFloatScalars == 3

\* angles are 0 .. MaxQuarterTurns quarter turns
MaxQuarterTurns == 4

\* ------------------------------------------------------------------------
\* Scalar types
\* ------------------------------------------------------------------------

FracBits == 4

WordBits == 16

Pow2(n) == 2 ^ n

One == Pow2(FracBits)

MinFix == 0 - Pow2(WordBits - 1)

MaxFix == Pow2(WordBits - 1) - 1

Fin(n) == [k |-> "fin", n |-> n]

PInf == [k |-> "inf", n |-> 1]

NInf == [k |-> "inf", n |-> 0 - 1]

NaN == [k |-> "nan", n |-> 0]

Panic == [k |-> "panic", n |-> 0]

Types == {"f32", "f64", "fixed"}

IsFloat == ty \in {"f32", "f64"}

\* raw values: 0, 1.0, -1.5, MAX, 0.375, -0.5, 2.0, 2^-4
FixedPool == <<0, 16, 0 - 24, MaxFix, 6, 0 - 8, 32, 1>>

FloatPool == <<0, 1, 0 - 1, 2, 0 - 2, 3>>

ScalarsOf(t) ==
    IF t = "fixed"
    THEN {Fin(FixedPool[i]) : i \in 1..NumFixedScalars}
    ELSE {Fin(FloatPool[i]) : i \in 1..NumFloatScalars}

Scalars == ScalarsOf(ty)

Abs(n) == IF n < 0 THEN 0 - n ELSE n

Sgn(n) == IF n < 0 THEN 0 - 1 ELSE 1

\* integer division rounding towards zero, as Rust's `/` on integers
TruncDiv(x, y) == Sgn(x) * Sgn(y) * (Abs(x) \div Abs(y))

\* `as i16` of a wider integer
Wrap(n) == ((n + Pow2(WordBits - 1)) % Pow2(WordBits)) - Pow2(WordBits - 1)

InRange(n) == MinFix <= n /\ n <= MaxFix

\* the result of a fixed-point operation whose exact raw result is n
Overflowing(n) ==
    IF InRange(n) THEN Fin(n)
    ELSE IF checks THEN Panic ELSE Fin(Wrap(n))

FixedAdd(x, y) == Overflowing(x.n + y.n)

FixedSub(x, y) == Overflowing(x.n - y.n)

FixedNeg(x) == Overflowing(0 - x.n)

\* the double-width product shifted right arithmetically by FracBits
FixedMul(x, y) == Overflowing((x.n * y.n) \div One)

\* the double-width dividend shifted left by FracBits, divided truncating
FixedDiv(x, y) ==
    IF y.n = 0 THEN Panic
    ELSE Overflowing(TruncDiv(x.n * One, y.n))

FloatNeg(x) ==
    IF x.k = "nan" THEN NaN
    ELSE IF x.k = "inf" THEN [k |-> "inf", n |-> 0 - x.n]
    ELSE Fin(0 - x.n)

FloatAdd(x, y) ==
    IF x.k = "nan" \/ y.k = "nan" THEN NaN
    ELSE IF x.k = "inf" /\ y.k = "inf" THEN (IF x.n = y.n THEN x ELSE NaN)
    ELSE IF x.k = "inf" THEN x
    ELSE IF y.k = "inf" THEN y
    ELSE Fin(x.n + y.n)

FloatSub(x, y) == FloatAdd(x, FloatNeg(y))

FloatMul(x, y) ==
    IF x.k = "nan" \/ y.k = "nan" THEN NaN
    ELSE IF x.k = "inf" \/ y.k = "inf"
         THEN (IF x.n = 0 \/ y.n = 0 THEN NaN
               ELSE [k |-> "inf", n |-> Sgn(x.n) * Sgn(y.n)])
    ELSE Fin(x.n * y.n)

\* the float quotients the model represents exactly
FloatDivExact(x, y) ==
    IF x.k # "fin" \/ y.k # "fin" THEN TRUE
    ELSE IF y.n = 0 THEN TRUE
    ELSE Abs(x.n) % Abs(y.n) = 0

FloatDiv(x, y) ==
    IF x.k = "nan" \/ y.k = "nan" THEN NaN
    ELSE IF x.k = "inf"
         THEN (IF y.k = "inf" THEN NaN
               ELSE [k |-> "inf", n |-> x.n * Sgn(y.n)])
    ELSE IF y.k = "inf" THEN Fin(0)
    ELSE IF y.n = 0
         THEN (IF x.n = 0 THEN NaN ELSE [k |-> "inf", n |-> Sgn(x.n)])
    ELSE Fin(TruncDiv(x.n, y.n))

\* the operators of T: VecInner, dispatched on the scalar type
SAdd(x, y) ==
    IF x.k = "panic" \/ y.k = "panic" THEN Panic
    ELSE IF IsFloat THEN FloatAdd(x, y) ELSE FixedAdd(x, y)

SSub(x, y) ==
    IF x.k = "panic" \/ y.k = "panic" THEN Panic
    ELSE IF IsFloat THEN FloatSub(x, y) ELSE FixedSub(x, y)

SMul(x, y) ==
    IF x.k = "panic" \/ y.k = "panic" THEN Panic
    ELSE IF IsFloat THEN FloatMul(x, y) ELSE FixedMul(x, y)

SDiv(x, y) ==
    IF x.k = "panic" \/ y.k = "panic" THEN Panic
    ELSE IF IsFloat THEN FloatDiv(x, y) ELSE FixedDiv(x, y)

SNeg(x) ==
    IF x.k = "panic" THEN Panic
    ELSE IF IsFloat THEN FloatNeg(x) ELSE FixedNeg(x)

\* PartialEq of the scalar: NaN is not equal to anything
SEq(x, y) == x.k # "nan" /\ y.k # "nan" /\ x = y

\* whether `x / y` is a quotient the model represents
DivExact(x, y) ==
    IF IsFloat /\ x.k # "panic" /\ y.k # "panic" THEN FloatDivExact(x, y) ELSE TRUE

\* f32::cos / f64::cos and sin of q quarter turns
Cos(q) == Fin(<<1, 0, 0 - 1, 0>>[(q % 4) + 1])

Sin(q) == Fin(<<0, 1, 0, 0 - 1>>[(q % 4) + 1])

\* ------------------------------------------------------------------------
\* XYVec<T>  (src/src/xy.rs)
\* ------------------------------------------------------------------------

XYVec_new(inner) == [inner |-> inner]

XYVec_x(self) == self.inner[1]

XYVec_y(self) == self.inner[2]

\* a mutant of scale_by: the y component is not scaled
XYVec_scale_by_x_only(self, d) ==
    LET x == SMul(XYVec_x(self), d)
        y == XYVec_y(self)
    IN  XYVec_new(<<x, y>>)

XYVec_scale_by(self, d) ==
    LET x == SMul(XYVec_x(self), d)
        y == SMul(XYVec_y(self), d)
    IN  XYVec_new(<<x, y>>)

XYVec_div_by(self, d) ==
    LET x == SDiv(XYVec_x(self), d)
        y == SDiv(XYVec_y(self), d)
    IN  XYVec_new(<<x, y>>)

\* a mutant of l1_norm: the absolute values are summed
XYVec_l1_norm_abs(self) ==
    LET ab(s) == IF s.k = "fin" /\ s.n < 0 THEN SNeg(s) ELSE s
    IN  SAdd(ab(XYVec_x(self)), ab(XYVec_y(self)))

XYVec_l1_norm(self) == SAdd(XYVec_x(self), XYVec_y(self))

XYVec_l2_norm_sqd(self) ==
    SAdd(SMul(XYVec_x(self), XYVec_x(self)), SMul(XYVec_y(self), XYVec_y(self)))

\* a mutant of cross_prod: the two products are added
XYVec_cross_prod_added(self, other) ==
    SAdd(SMul(XYVec_x(self), XYVec_y(other)), SMul(XYVec_y(self), XYVec_x(other)))

XYVec_cross_prod(self, other) ==
    SSub(SMul(XYVec_x(self), XYVec_y(other)), SMul(XYVec_y(self), XYVec_x(other)))

XYVec_cross_prod_sqd(self, other) ==
    SMul(XYVec_cross_prod(self, other), XYVec_cross_prod(self, other))

XYVec_dot_prod(self, other) ==
    SAdd(SMul(XYVec_x(self), XYVec_x(other)), SMul(XYVec_y(self), XYVec_y(other)))

XYVec_translate_by(self, x, y) ==
    LET new_x == SAdd(XYVec_x(self), x)
        new_y == SAdd(XYVec_y(self), y)
    IN  [inner |-> <<new_x, new_y>>]

XYVec_sum(self) == SAdd(XYVec_x(self), XYVec_y(self))

\* the items the slice iterator yields, in order, before it ends
\* a mutant of iter: the second component is yielded first
XYVec_iter_reversed(self) == [i \in 1..2 |-> self.inner[3 - i]]

XYVec_iter(self) == [i \in 1..2 |-> self.inner[i]]

\* a mutant of scalar_projected_on: a zero divisor is answered with zero
XYVec_scalar_projected_on_guarded(self, other) ==
    LET dot_ab == XYVec_dot_prod(self, other)
        dot_bb == XYVec_dot_prod(other, other)
    IN  IF dot_bb = Fin(0) THEN Fin(0) ELSE SDiv(dot_ab, dot_bb)

XYVec_scalar_projected_on(self, other) ==
    LET dot_ab == XYVec_dot_prod(self, other)
        dot_bb == XYVec_dot_prod(other, other)
    IN  SDiv(dot_ab, dot_bb)

XYVec_projected_on(self, other) ==
    LET scalar == XYVec_scalar_projected_on(self, other)
    IN  XYVec_scale_by(other, scalar)

\* a mutant of add: the y components are subtracted
XYVec_add_sign_slip(self, other) ==
    LET x == SAdd(XYVec_x(self), XYVec_x(other))
        y == SSub(XYVec_y(self), XYVec_y(other))
    IN  XYVec_new(<<x, y>>)

XYVec_add(self, other) ==
    LET x == SAdd(XYVec_x(self), XYVec_x(other))
        y == SAdd(XYVec_y(self), XYVec_y(other))
    IN  XYVec_new(<<x, y>>)

XYVec_add_assign(self, other) ==
    [self EXCEPT !.inner[1] = SAdd(@, XYVec_x(other)),
                 !.inner[2] = SAdd(@, XYVec_y(other))]

XYVec_sub(self, other) ==
    LET x == SSub(XYVec_x(self), XYVec_x(other))
        y == SSub(XYVec_y(self), XYVec_y(other))
    IN  XYVec_new(<<x, y>>)

\* a mutant of sub_assign: the y component is added
XYVec_sub_assign_adds_y(self, other) ==
    [self EXCEPT !.inner[1] = SSub(@, XYVec_x(other)),
                 !.inner[2] = SAdd(@, XYVec_y(other))]

XYVec_sub_assign(self, other) ==
    [self EXCEPT !.inner[1] = SSub(@, XYVec_x(other)),
                 !.inner[2] = SSub(@, XYVec_y(other))]

XYVec_neg(self) == XYVec_new(<<SNeg(XYVec_x(self)), SNeg(XYVec_y(self))>>)

\* derived PartialEq: componentwise `==` of the scalars
XYVec_eq(self, other) ==
    /\ SEq(self.inner[1], other.inner[1])
    /\ SEq(self.inner[2], other.inner[2])

XYVec_zeroes == [inner |-> <<Fin(0), Fin(0)>>]

\* impl XYVec<f32>
\* a mutant of the f32 rotated_by: the receiver is not subtracted
XYVec_f32_rotated_by_absolute(self, theta) ==
    LET c == Cos(theta)
        s == Sin(theta)
        x == SSub(SMul(XYVec_x(self), c), SMul(XYVec_y(self), s))
        y == SAdd(SMul(XYVec_x(self), s), SMul(XYVec_y(self), c))
    IN  XYVec_new(<<x, y>>)

XYVec_f32_rotated_by(self, theta) ==
    LET c == Cos(theta)
        s == Sin(theta)
        x == SSub(SSub(SMul(XYVec_x(self), c), SMul(XYVec_y(self), s)), XYVec_x(self))
        y == SSub(SAdd(SMul(XYVec_x(self), s), SMul(XYVec_y(self), c)), XYVec_y(self))
    IN  XYVec_new(<<x, y>>)

\* impl XYVec<f64>
XYVec_f64_rotated_by(self, theta) ==
    LET c == Cos(theta)
        s == Sin(theta)
        x == SSub(SMul(XYVec_x(self), c), SMul(XYVec_y(self), s))
        y == SAdd(SMul(XYVec_x(self), s), SMul(XYVec_y(self), c))
    IN  XYVec_new(<<x, y>>)

\* a mutant of Unwrap: a missing item is replaced by the default value
Unwrap_or_default(s, i) == IF i <= Len(s) THEN s[i] ELSE Fin(0)

\* slice::Iter::next on the items s of which pos were consumed: Some(item)
\* or, at the end, None
Iter_next(s, pos) ==
    IF pos < Len(s) THEN [some |-> TRUE, item |-> s[pos + 1]]
    ELSE [some |-> FALSE, item |-> Fin(0)]

\* how many items are consumed after that call
Iter_pos_after(s, pos) == IF pos < Len(s) THEN pos + 1 ELSE pos

\* Option::unwrap of Iterator::next on the items s, at position i
Unwrap(s, i) == IF i <= Len(s) THEN s[i] ELSE Panic

XYVec_from_iter(iter) ==
    LET x == Unwrap(iter, 1)
        y == Unwrap(iter, 2)
    IN  XYVec_new(<<x, y>>)

\* ------------------------------------------------------------------------
\* XYZVec<T>  (src/src/xyz.rs)
\* ------------------------------------------------------------------------

XYZVec_new(inner) == [inner |-> inner]

XYZVec_x(self) == self.inner[1]

XYZVec_y(self) == self.inner[2]

XYZVec_z(self) == self.inner[3]

XYZVec_scale_by(self, d) ==
    LET x == SMul(XYZVec_x(self), d)
        y == SMul(XYZVec_y(self), d)
        z == SMul(XYZVec_z(self), d)
    IN  XYZVec_new(<<x, y, z>>)

XYZVec_div_by(self, d) ==
    LET x == SDiv(XYZVec_x(self), d)
        y == SDiv(XYZVec_y(self), d)
        z == SDiv(XYZVec_z(self), d)
    IN  XYZVec_new(<<x, y, z>>)

XYZVec_translate_by(self, x, y, z) ==
    LET new_x == SAdd(XYZVec_x(self), x)
        new_y == SAdd(XYZVec_y(self), y)
        new_z == SAdd(XYZVec_z(self), z)
    IN  [inner |-> <<new_x, new_y, new_z>>]

XYZVec_l1_norm(self) == SAdd(SAdd(XYZVec_x(self), XYZVec_y(self)), XYZVec_z(self))

\* a mutant of l2_norm_sqd: the z term is not squared
XYZVec_l2_norm_sqd_plain_z(self) ==
    SAdd(SAdd(SMul(XYZVec_x(self), XYZVec_x(self)),
              SMul(XYZVec_y(self), XYZVec_y(self))),
         XYZVec_z(self))

XYZVec_l2_norm_sqd(self) ==
    SAdd(SAdd(SMul(XYZVec_x(self), XYZVec_x(self)),
              SMul(XYZVec_y(self), XYZVec_y(self))),
         SMul(XYZVec_z(self), XYZVec_z(self)))

\* a mutant of cross_prod: the terms sit in the components of the usual formula
XYZVec_cross_prod_shifted(self, other) ==
    LET x == SSub(SMul(XYZVec_y(self), XYZVec_z(other)), SMul(XYZVec_z(self), XYZVec_y(other)))
        y == SSub(SMul(XYZVec_z(self), XYZVec_x(other)), SMul(XYZVec_x(self), XYZVec_z(other)))
        z == SSub(SMul(XYZVec_x(self), XYZVec_y(other)), SMul(XYZVec_y(self), XYZVec_x(other)))
    IN  XYZVec_new(<<x, y, z>>)

XYZVec_cross_prod(self, other) ==
    LET x == SSub(SMul(XYZVec_x(self), XYZVec_y(other)), SMul(XYZVec_y(self), XYZVec_x(other)))
        y == SSub(SMul(XYZVec_y(self), XYZVec_z(other)), SMul(XYZVec_z(self), XYZVec_y(other)))
        z == SSub(SMul(XYZVec_z(self), XYZVec_x(other)), SMul(XYZVec_x(self), XYZVec_z(other)))
    IN  XYZVec_new(<<x, y, z>>)

XYZVec_dot_prod(self, other) ==
    SAdd(SAdd(SMul(XYZVec_x(self), XYZVec_x(other)),
              SMul(XYZVec_y(self), XYZVec_y(other))),
         SMul(XYZVec_z(self), XYZVec_z(other)))

XYZVec_cross_prod_magnitude_sqd(self, other) ==
    XYZVec_l2_norm_sqd(XYZVec_cross_prod(self, other))

XYZVec_sum(self) == SAdd(SAdd(XYZVec_x(self), XYZVec_y(self)), XYZVec_z(self))

XYZVec_iter(self) == [i \in 1..3 |-> self.inner[i]]

\* a mutant of add: the z component ignores the operand
XYZVec_add_self_z(self, other) ==
    LET x == SAdd(XYZVec_x(self), XYZVec_x(other))
        y == SAdd(XYZVec_y(self), XYZVec_y(other))
        z == SAdd(XYZVec_z(self), XYZVec_z(self))
    IN  XYZVec_new(<<x, y, z>>)

XYZVec_add(self, other) ==
    LET x == SAdd(XYZVec_x(self), XYZVec_x(other))
        y == SAdd(XYZVec_y(self), XYZVec_y(other))
        z == SAdd(XYZVec_z(self), XYZVec_z(other))
    IN  XYZVec_new(<<x, y, z>>)

XYZVec_add_assign(self, other) ==
    [self EXCEPT !.inner[1] = SAdd(@, XYZVec_x(other)),
                 !.inner[2] = SAdd(@, XYZVec_y(other)),
                 !.inner[3] = SAdd(@, XYZVec_z(other))]

XYZVec_sub(self, other) ==
    LET x == SSub(XYZVec_x(self), XYZVec_x(other))
        y == SSub(XYZVec_y(self), XYZVec_y(other))
        z == SSub(XYZVec_z(self), XYZVec_z(other))
    IN  XYZVec_new(<<x, y, z>>)

XYZVec_sub_assign(self, other) ==
    [self EXCEPT !.inner[1] = SSub(@, XYZVec_x(other)),
                 !.inner[2] = SSub(@, XYZVec_y(other)),
                 !.inner[3] = SSub(@, XYZVec_z(other))]

XYZVec_eq(self, other) ==
    /\ SEq(self.inner[1], other.inner[1])
    /\ SEq(self.inner[2], other.inner[2])
    /\ SEq(self.inner[3], other.inner[3])

XYZVec_zeroes == [inner |-> <<Fin(0), Fin(0), Fin(0)>>]

XYZVec_from_iter(iter) ==
    LET x == Unwrap(iter, 1)
        y == Unwrap(iter, 2)
        z == Unwrap(iter, 3)
    IN  XYZVec_new(<<x, y, z>>)

\* ------------------------------------------------------------------------
\* The state machine: a receiver `a` of scalar type ty, in a build with or
\* without overflow checks, on which the crate's operations are called.
\* op, arg and out record the last call, its arguments and what it returned
\* (out.st = "panic": the call panicked and the thread is gone); op = "new"
\* when the caller holds just the receiver.
\* ------------------------------------------------------------------------

XYVecs == {XYVec_new(<<x, y>>) : x \in Scalars, y \in Scalars}

XYZVecs == {XYZVec_new(<<x, y, z>>) : x \in Scalars, y \in Scalars, z \in Scalars}

\* tests::cross_prod_fixed: v = (1.0, 2.0, -0.5) and w = (-2.0, 0.5, -0.0)
\* as I28F4::from_num makes them
cross_prod_fixed_v == XYZVec_new(<<Fin(One), Fin(2 * One), Fin(0 - (One \div 2))>>)

cross_prod_fixed_w == XYZVec_new(<<Fin(0 - 2 * One), Fin(One \div 2), Fin(0)>>)

\* the receivers and operands of the fixed-point tests, next to the pool's
TestReceivers == IF ty = "fixed" THEN {cross_prod_fixed_v} ELSE {}

TestOperands == IF ty = "fixed" THEN {cross_prod_fixed_w} ELSE {}

IsXY(v) == Len(v.inner) = 2

IsXYZ(v) == Len(v.inner) = 3

\* the values a mutated receiver may take: the input vectors
Capped(v) == \A i \in DOMAIN v.inner : v.inner[i] \in Scalars

Halt == [st |-> "panic", val |-> Panic]

Unit == [st |-> "ok", val |-> <<>>]

\* what a call returning the scalar s leaves behind
RetS(s) == IF s.k = "panic" THEN Halt ELSE [st |-> "ok", val |-> s]

Completed(v) == \A i \in DOMAIN v.inner : v.inner[i].k # "panic"

\* what a call returning the vector v leaves behind
RetV(v) == IF Completed(v) THEN [st |-> "ok", val |-> v] ELSE Halt

\* a call of a `&self` / by-value method on the freshly held receiver: the
\* receiver is left alone
Call(name, args, result) ==
    /\ op = "new"
    /\ op' = name
    /\ arg' = args
    /\ out' = result
    /\ UNCHANGED <<ty, checks, a>>

\* the sequences handed to from_iter: the receiver's iterator cut short
\* (Iterator::take) or followed by one more item (Iterator::chain)
IterInputs ==
    {SubSeq(a.inner, 1, n) : n \in 0..Len(a.inner)}
        \cup {Append(a.inner, e) : e \in Scalars}

Init ==
    /\ ty \in Types
    /\ checks \in BOOLEAN
    /\ a \in XYVecs \cup XYZVecs \cup TestReceivers
    /\ op = "new"
    /\ arg = [inner |-> a.inner]
    /\ out = [st |-> "ok", val |-> a]

XYVecScaleBy ==
    /\ IsXY(a)
    /\ \E d \in Scalars :
          Call("XYVec::scale_by", [d |-> d], RetV(XYVec_scale_by(a, d)))

XYVecDivBy ==
    /\ IsXY(a)
    /\ \E d \in Scalars :
          /\ DivExact(XYVec_x(a), d) /\ DivExact(XYVec_y(a), d)
          /\ Call("XYVec::div_by", [d |-> d], RetV(XYVec_div_by(a, d)))

XYVecL1Norm ==
    /\ IsXY(a)
    /\ Call("XYVec::l1_norm", <<>>, RetS(XYVec_l1_norm(a)))

XYVecL2NormSqd ==
    /\ IsXY(a)
    /\ Call("XYVec::l2_norm_sqd", <<>>, RetS(XYVec_l2_norm_sqd(a)))

XYVecCrossProd ==
    /\ IsXY(a)
    /\ \E other \in XYVecs :
          Call("XYVec::cross_prod", [other |-> other], RetS(XYVec_cross_prod(a, other)))

XYVecCrossProdSqd ==
    /\ IsXY(a)
    /\ \E other \in XYVecs :
          Call("XYVec::cross_prod_sqd", [other |-> other],
               RetS(XYVec_cross_prod_sqd(a, other)))

XYVecDotProd ==
    /\ IsXY(a)
    /\ \E other \in XYVecs :
          Call("XYVec::dot_prod", [other |-> other], RetS(XYVec_dot_prod(a, other)))

XYVecTranslateBy ==
    /\ IsXY(a)
    /\ \E x \in Scalars, y \in Scalars :
          Call("XYVec::translate_by", [x |-> x, y |-> y],
               RetV(XYVec_translate_by(a, x, y)))

XYVecSum ==
    /\ IsXY(a)
    /\ Call("XYVec::sum", <<>>, RetS(XYVec_sum(a)))

XYVecIter ==
    /\ IsXY(a)
    /\ Call("XYVec::iter", <<>>, [st |-> "ok", val |-> XYVec_iter(a)])

XYVecScalarProjectedOn ==
    /\ IsXY(a)
    /\ \E other \in XYVecs :
          /\ DivExact(XYVec_dot_prod(a, other), XYVec_dot_prod(other, other))
          /\ Call("XYVec::scalar_projected_on", [other |-> other],
                  RetS(XYVec_scalar_projected_on(a, other)))

XYVecProjectedOn ==
    /\ IsXY(a)
    /\ \E other \in XYVecs :
          /\ DivExact(XYVec_dot_prod(a, other), XYVec_dot_prod(other, other))
          /\ Call("XYVec::projected_on", [other |-> other],
                  RetV(XYVec_projected_on(a, other)))

XYVecAdd ==
    /\ IsXY(a)
    /\ \E other \in XYVecs :
          Call("XYVec::add", [other |-> other], RetV(XYVec_add(a, other)))

XYVecSub ==
    /\ IsXY(a)
    /\ \E other \in XYVecs :
          Call("XYVec::sub", [other |-> other], RetV(XYVec_sub(a, other)))

\* a mutant of the call of neg: the receiver is negated in place
XYVecNeg_in_place ==
    /\ IsXY(a)
    /\ op = "new"
    /\ op' = "XYVec::neg"
    /\ arg' = <<>>
    /\ out' = RetV(XYVec_neg(a))
    /\ a' = XYVec_neg(a)
    /\ UNCHANGED <<ty, checks>>

XYVecNeg ==
    /\ IsXY(a)
    /\ Call("XYVec::neg", <<>>, RetV(XYVec_neg(a)))

\* the calls that take the receiver by `&mut self`
AssignOps ==
    {"XYVec::add_assign", "XYVec::sub_assign", "XYZVec::add_assign", "XYZVec::sub_assign"}

\* `a += other`: the receiver is mutated in place, and nothing is returned,
\* so that the next `+=` or `-=` can follow at once; arg also records the
\* receiver as it was when the call was made.  The values a takes are
\* capped to the input vectors, which bounds the state space.
XYVecAddAssign ==
    /\ IsXY(a)
    /\ op \in {"new"} \cup AssignOps
    /\ \E other \in XYVecs :
          /\ Capped(XYVec_add_assign(a, other))
          /\ a' = XYVec_add_assign(a, other)
          /\ op' = "XYVec::add_assign"
          /\ arg' = [other |-> other, before |-> a]
    /\ out' = Unit
    /\ UNCHANGED <<ty, checks>>

XYVecSubAssign ==
    /\ IsXY(a)
    /\ op \in {"new"} \cup AssignOps
    /\ \E other \in XYVecs :
          /\ Capped(XYVec_sub_assign(a, other))
          /\ a' = XYVec_sub_assign(a, other)
          /\ op' = "XYVec::sub_assign"
          /\ arg' = [other |-> other, before |-> a]
    /\ out' = Unit
    /\ UNCHANGED <<ty, checks>>

XYVecF32RotatedBy ==
    /\ IsXY(a)
    /\ ty = "f32"
    /\ \E theta \in 0..MaxQuarterTurns :
          Call("XYVec::rotated_by", [theta |-> theta], RetV(XYVec_f32_rotated_by(a, theta)))

XYVecF64RotatedBy ==
    /\ IsXY(a)
    /\ ty = "f64"
    /\ \E theta \in 0..MaxQuarterTurns :
          Call("XYVec::rotated_by", [theta |-> theta], RetV(XYVec_f64_rotated_by(a, theta)))

XYVecFromIter ==
    \E iter \in IterInputs :
        Call("XYVec::from_iter", [iter |-> iter], RetV(XYVec_from_iter(iter)))

XYZVecScaleBy ==
    /\ IsXYZ(a)
    /\ \E d \in Scalars :
          Call("XYZVec::scale_by", [d |-> d], RetV(XYZVec_scale_by(a, d)))

XYZVecDivBy ==
    /\ IsXYZ(a)
    /\ \E d \in Scalars :
          /\ DivExact(XYZVec_x(a), d) /\ DivExact(XYZVec_y(a), d) /\ DivExact(XYZVec_z(a), d)
          /\ Call("XYZVec::div_by", [d |-> d], RetV(XYZVec_div_by(a, d)))

XYZVecTranslateBy ==
    /\ IsXYZ(a)
    /\ \E x \in Scalars, y \in Scalars, z \in Scalars :
          Call("XYZVec::translate_by", [x |-> x, y |-> y, z |-> z],
               RetV(XYZVec_translate_by(a, x, y, z)))

XYZVecL1Norm ==
    /\ IsXYZ(a)
    /\ Call("XYZVec::l1_norm", <<>>, RetS(XYZVec_l1_norm(a)))

XYZVecL2NormSqd ==
    /\ IsXYZ(a)
    /\ Call("XYZVec::l2_norm_sqd", <<>>, RetS(XYZVec_l2_norm_sqd(a)))

XYZVecCrossProd ==
    /\ IsXYZ(a)
    /\ \E other \in XYZVecs \cup TestOperands :
          Call("XYZVec::cross_prod", [other |-> other], RetV(XYZVec_cross_prod(a, other)))

XYZVecDotProd ==
    /\ IsXYZ(a)
    /\ \E other \in XYZVecs :
          Call("XYZVec::dot_prod", [other |-> other], RetS(XYZVec_dot_prod(a, other)))

XYZVecCrossProdMagnitudeSqd ==
    /\ IsXYZ(a)
    /\ \E other \in XYZVecs \cup TestOperands :
          Call("XYZVec::cross_prod_magnitude_sqd", [other |-> other],
               RetS(XYZVec_cross_prod_magnitude_sqd(a, other)))

XYZVecSum ==
    /\ IsXYZ(a)
    /\ Call("XYZVec::sum", <<>>, RetS(XYZVec_sum(a)))

XYZVecIter ==
    /\ IsXYZ(a)
    /\ Call("XYZVec::iter", <<>>, [st |-> "ok", val |-> XYZVec_iter(a)])

XYZVecAdd ==
    /\ IsXYZ(a)
    /\ \E other \in XYZVecs :
          Call("XYZVec::add", [other |-> other], RetV(XYZVec_add(a, other)))

XYZVecSub ==
    /\ IsXYZ(a)
    /\ \E other \in XYZVecs :
          Call("XYZVec::sub", [other |-> other], RetV(XYZVec_sub(a, other)))

XYZVecAddAssign ==
    /\ IsXYZ(a)
    /\ op \in {"new"} \cup AssignOps
    /\ \E other \in XYZVecs :
          /\ Capped(XYZVec_add_assign(a, other))
          /\ a' = XYZVec_add_assign(a, other)
          /\ op' = "XYZVec::add_assign"
          /\ arg' = [other |-> other, before |-> a]
    /\ out' = Unit
    /\ UNCHANGED <<ty, checks>>

XYZVecSubAssign ==
    /\ IsXYZ(a)
    /\ op \in {"new"} \cup AssignOps
    /\ \E other \in XYZVecs :
          /\ Capped(XYZVec_sub_assign(a, other))
          /\ a' = XYZVec_sub_assign(a, other)
          /\ op' = "XYZVec::sub_assign"
          /\ arg' = [other |-> other, before |-> a]
    /\ out' = Unit
    /\ UNCHANGED <<ty, checks>>

XYZVecFromIter ==
    \E iter \in IterInputs :
        Call("XYZVec::from_iter", [iter |-> iter], RetV(XYZVec_from_iter(iter)))

\* the iterator the caller holds: its items and how many were consumed
IterItems == IF op = "Iter::next" THEN arg.iter ELSE out.val

IterPos == IF op = "Iter::next" THEN arg.pos ELSE 0

\* `iter.next()` on the iterator iter() returned, until it has answered None
IterNext ==
    /\ \/ op \in {"XYVec::iter", "XYZVec::iter"}
       \/ op = "Iter::next" /\ out.val.some
    /\ op' = "Iter::next"
    /\ arg' = [iter |-> IterItems, pos |-> Iter_pos_after(IterItems, IterPos)]
    /\ out' = [st |-> "ok", val |-> Iter_next(IterItems, IterPos)]
    /\ UNCHANGED <<ty, checks, a>>

\* the caller drops what the last call returned and holds the receiver
\* again; after a panic there is nothing left to do
Discard ==
    /\ op # "new"
    /\ out.st = "ok"
    /\ op' = "new"
    /\ arg' = [inner |-> a.inner]
    /\ out' = [st |-> "ok", val |-> a]
    /\ UNCHANGED <<ty, checks, a>>

Next ==
    \/ XYVecScaleBy
    \/ XYVecDivBy
    \/ XYVecL1Norm
    \/ XYVecL2NormSqd
    \/ XYVecCrossProd
    \/ XYVecCrossProdSqd
    \/ XYVecDotProd
    \/ XYVecTranslateBy
    \/ XYVecSum
    \/ XYVecIter
    \/ XYVecScalarProjectedOn
    \/ XYVecProjectedOn
    \/ XYVecAdd
    \/ XYVecSub
    \/ XYVecNeg
    \/ XYVecAddAssign
    \/ XYVecSubAssign
    \/ XYVecF32RotatedBy
    \/ XYVecF64RotatedBy
    \/ XYVecFromIter
    \/ XYZVecScaleBy
    \/ XYZVecDivBy
    \/ XYZVecTranslateBy
    \/ XYZVecL1Norm
    \/ XYZVecL2NormSqd
    \/ XYZVecCrossProd
    \/ XYZVecDotProd
    \/ XYZVecCrossProdMagnitudeSqd
    \/ XYZVecSum
    \/ XYZVecIter
    \/ XYZVecAdd
    \/ XYZVecSub
    \/ XYZVecAddAssign
    \/ XYZVecSubAssign
    \/ XYZVecFromIter
    \/ IterNext
    \/ Discard

Spec == Init /\ [][Next]_vars

\* ------------------------------------------------------------------------
\* Properties
\* ------------------------------------------------------------------------

\* C1: XYZVec::cross_prod(v, w) returns, in the order (x, y, z), the
\* components (y*oz - z*oy, z*ox - x*oz, x*oy - y*ox).
C1_CrossProdComponents ==
    (op = "XYZVec::cross_prod" /\ out.st = "ok") =>
        LET v == a
            w == arg.other
        IN  out.val.inner =
              << SSub(SMul(XYZVec_y(v), XYZVec_z(w)), SMul(XYZVec_z(v), XYZVec_y(w))),
                 SSub(SMul(XYZVec_z(v), XYZVec_x(w)), SMul(XYZVec_x(v), XYZVec_z(w))),
                 SSub(SMul(XYZVec_x(v), XYZVec_y(w)), SMul(XYZVec_y(v), XYZVec_x(w))) >>

\* C2: in exact arithmetic (the float types on integer inputs) the result of
\* v.cross_prod(w) is orthogonal to v: v.dot_prod(v.cross_prod(w)) == 0.
C2_CrossProdOrthogonal ==
    (op = "XYZVec::cross_prod" /\ out.st = "ok" /\ IsFloat) =>
        SEq(XYZVec_dot_prod(a, out.val), Fin(0))

\* C3: for f32 and f64 alike, rotated_by(theta) returns the rotated vector
\* (x*cos - y*sin, x*sin + y*cos).
C3_RotatedByIsRotation ==
    (op = "XYVec::rotated_by" /\ out.st = "ok") =>
        LET c == Cos(arg.theta)
            s == Sin(arg.theta)
        IN  out.val.inner =
              << SSub(SMul(XYVec_x(a), c), SMul(XYVec_y(a), s)),
                 SAdd(SMul(XYVec_x(a), s), SMul(XYVec_y(a), c)) >>

\* the dimension of the vector type an operation named name belongs to
ArityOf(name) == IF name = "XYVec::from_iter" THEN 2 ELSE 3

\* C4: from_iter on a sequence of at least N items (N = 2 for XYVec, 3 for
\* XYZVec) returns the vector of its first N items, whatever follows them;
\* on a shorter sequence it panics and no vector is produced.
C4_FromIterArity ==
    (op \in {"XYVec::from_iter", "XYZVec::from_iter"}) =>
        IF Len(arg.iter) >= ArityOf(op)
        THEN /\ out.st = "ok"
             /\ out.val.inner = SubSeq(arg.iter, 1, ArityOf(op))
        ELSE out.st = "panic"

\* C4 witness: an XYVec is collected from a one-item sequence, which panics.
C4_Witness ==
    /\ op = "XYVec::from_iter"
    /\ Len(arg.iter) = 1
    /\ out.st = "panic"

Invalid(x) == x.k \in {"inf", "nan"}

IsZeroVec(v) == \A i \in DOMAIN v.inner : v.inner[i] = Fin(0)

\* what C5 says of a call that divides by zero: it returns, and what it
\* returns is Infinity or NaN in every component
ReturnsInvalid ==
    /\ out.st = "ok"
    /\ IF op \in {"XYVec::scalar_projected_on"}
       THEN Invalid(out.val)
       ELSE \A i \in DOMAIN out.val.inner : Invalid(out.val.inner[i])

\* the calls C5 is about: div_by(0) and the projections on the zero vector
DividesByZero ==
    \/ op \in {"XYVec::div_by", "XYZVec::div_by"} /\ arg.d = Fin(0)
    \/ op \in {"XYVec::scalar_projected_on", "XYVec::projected_on"} /\ IsZeroVec(arg.other)

\* C5 as stated: for every scalar type, fixed point included, div_by(0) and
\* the projections on the zero vector return Infinity/NaN and never halt.
C5_Original ==
    DividesByZero => ReturnsInvalid

\* C5 as amended: for the float types div_by(0) and the projections on the
\* zero vector return Infinity/NaN in every component and never halt; for
\* the fixed-point type the same calls panic (division by zero).
C5_DivideByZero ==
    DividesByZero =>
        IF IsFloat THEN ReturnsInvalid ELSE out.st = "panic"

\* C5 witness: the crate's test case, (x, y) projected on the f32 zero
\* vector, gives NaN.
C5_Witness ==
    /\ ty = "f32"
    /\ op = "XYVec::scalar_projected_on"
    /\ arg.other = XYVec_zeroes
    /\ ~IsZeroVec(a)
    /\ out = [st |-> "ok", val |-> NaN]

\* the vectors of the type the last call belongs to
Operands == IF IsXY(a) THEN XYVecs ELSE XYZVecs

\* `+` of the vector type of v
VecAdd(v, w) == IF IsXY(v) THEN XYVec_add(v, w) ELSE XYZVec_add(v, w)

\* (v + w) + u, where v + w is what the last call returned or panicked on
AssocLeft(u) == IF out.st = "ok" THEN VecAdd(out.val, u) ELSE VecAdd(a, arg.other)

\* v + (w + u)
AssocRight(u) == VecAdd(a, VecAdd(arg.other, u))

IsFixedAdd == op \in {"XYVec::add", "XYZVec::add"} /\ ty = "fixed"

\* C6 as stated: with fixed-point addition, (v + w) + u and v + (w + u) are
\* the same vector, and one side completes exactly when the other does.
C6_Original ==
    IsFixedAdd =>
        \A u \in Operands :
            /\ Completed(AssocLeft(u)) <=> Completed(AssocRight(u))
            /\ Completed(AssocLeft(u)) => AssocLeft(u) = AssocRight(u)

\* C6 as amended: with fixed-point addition, whenever both (v + w) + u and
\* v + (w + u) complete they are the same vector; in a build without
\* overflow checks both always complete (the sums wrap), while with overflow
\* checks one side can panic on an intermediate sum where the other
\* completes.
C6_AddAssociative ==
    IsFixedAdd =>
        \A u \in Operands :
            /\ (Completed(AssocLeft(u)) /\ Completed(AssocRight(u)))
                  => AssocLeft(u) = AssocRight(u)
            /\ ~checks => (Completed(AssocLeft(u)) /\ Completed(AssocRight(u)))

\* C6 witness: v + w completed and, for some u, (v + w) + u overflows an
\* intermediate sum and wraps while both sides still agree.
C6_Witness ==
    /\ IsFixedAdd
    /\ ~checks
    /\ out.st = "ok"
    /\ \E u \in Operands :
          /\ \E i \in DOMAIN a.inner : ~InRange(out.val.inner[i].n + u.inner[i].n)
          /\ AssocLeft(u) = AssocRight(u)

\* C7: v + w == w + v componentwise, for both vector types.
C7_AddCommutative ==
    /\ op = "XYVec::add" => out = RetV(XYVec_add(arg.other, a))
    /\ op = "XYZVec::add" => out = RetV(XYZVec_add(arg.other, a))

\* C7 witness: two different XYZVec values were added.
C7_Witness ==
    /\ op = "XYZVec::add"
    /\ out.st = "ok"
    /\ arg.other.inner[3] # a.inner[3]

\* `scale_by` of the vector type of v
VecScaleBy(v, d) == IF IsXY(v) THEN XYVec_scale_by(v, d) ELSE XYZVec_scale_by(v, d)

IsFixedDiv ==
    /\ op \in {"XYVec::div_by", "XYZVec::div_by"}
    /\ ty = "fixed"
    /\ arg.d # Fin(0)

\* C8 as stated: for the fixed-point type, every vector v and every nonzero
\* d, v.div_by(d).scale_by(d) == v exactly.
C8_Original ==
    IsFixedDiv =>
        /\ out.st = "ok"
        /\ RetV(VecScaleBy(out.val, arg.d)) = [st |-> "ok", val |-> a]

\* the quotient x / d is a value of the fixed-point type: no bit is lost
\* and it is in range
ExactQuotient(x, d) ==
    /\ (Abs(x.n) * One) % Abs(d.n) = 0
    /\ InRange(TruncDiv(x.n * One, d.n))

\* C8 as amended: for the fixed-point type, every nonzero d and every vector
\* v whose component quotients x / d are all exactly representable,
\* v.div_by(d).scale_by(d) == v; where a quotient is rounded, the round trip
\* can return a different vector.
C8_DivScaleRoundTrip ==
    (IsFixedDiv /\ \A i \in DOMAIN a.inner : ExactQuotient(a.inner[i], arg.d)) =>
        /\ out.st = "ok"
        /\ RetV(VecScaleBy(out.val, arg.d)) = [st |-> "ok", val |-> a]

\* C8 witness: (-1.5, y) is divided by -1.5, which gives 1.0 exactly.
C8_Witness ==
    /\ IsFixedDiv
    /\ IsXY(a)
    /\ arg.d = Fin(0 - 24)
    /\ a.inner[1] = Fin(0 - 24)
    /\ \A i \in DOMAIN a.inner : ExactQuotient(a.inner[i], arg.d)
    /\ out.st = "ok"
    /\ out.val.inner[1] = Fin(One)

C10_NormSqdIsDotProd ==
    /\ op = "XYVec::l2_norm_sqd" => out = RetS(XYVec_dot_prod(a, a))
    /\ op = "XYZVec::l2_norm_sqd" => out = RetS(XYZVec_dot_prod(a, a))

\* C10 witness: the squared norm of an XYZVec with a nonzero z was computed.
C10_Witness ==
    /\ op = "XYZVec::l2_norm_sqd"
    /\ out.st = "ok"
    /\ a.inner[3] # Fin(0)
    /\ out.val.n > 0

\* C11: iter() yields exactly the components of v in order (x, y for XYVec;
\* x, y, z for XYZVec) and then ends; an iterator taken again starts over
\* with the same items; collecting the iterated components gives a vector
\* equal to v.
C11_IterRoundTrip ==
    /\ op = "XYVec::iter" =>
          /\ out.val = <<XYVec_x(a), XYVec_y(a)>>
          /\ Iter_next(out.val, 0) = [some |-> TRUE, item |-> XYVec_x(a)]
          /\ RetV(XYVec_from_iter(out.val)) = [st |-> "ok", val |-> a]
          /\ XYVec_eq(XYVec_from_iter(out.val), a)
    /\ op = "XYZVec::iter" =>
          /\ out.val = <<XYZVec_x(a), XYZVec_y(a), XYZVec_z(a)>>
          /\ Iter_next(out.val, 0) = [some |-> TRUE, item |-> XYZVec_x(a)]
          /\ RetV(XYZVec_from_iter(out.val)) = [st |-> "ok", val |-> a]
          /\ XYZVec_eq(XYZVec_from_iter(out.val), a)
    /\ op = "Iter::next" =>
          IF out.val.some
          THEN /\ arg.pos <= Len(a.inner)
               /\ out.val.item = a.inner[arg.pos]
          ELSE arg.pos = Len(a.inner)

\* C11 witness: the iterator of an XYVec with two different components has
\* yielded both and answered None.
C11_Witness ==
    /\ op = "Iter::next"
    /\ IsXY(a)
    /\ XYVec_x(a) # XYVec_y(a)
    /\ ~out.val.some
    /\ arg.pos = 2

\* C12: in every step, the receiver changes only when the step is a call of
\* `+=` or `-=`, which returns nothing and changes the receiver from the
\* value it had when the call was made; every other call (and dropping a
\* result) leaves the receiver as it was and returns a value of its own.
\* Operands are passed by value, so a call cannot change them.
C12_OnlyAssignMutates ==
    [][ /\ a' # a => op' \in AssignOps
        /\ op' \in AssignOps => (out' = Unit /\ arg'.before = a)
        /\ op' \notin AssignOps => a' = a
        /\ ty' = ty /\ checks' = checks ]_vars

\* C12 witness: a `+=` has changed its receiver.
C12_Witness ==
    /\ op = "XYVec::add_assign"
    /\ arg.before # a
    /\ out = Unit

\* `+=`, `-=`, `+` and `-` of the vector type of v
VecAddAssign(v, w) == IF IsXY(v) THEN XYVec_add_assign(v, w) ELSE XYZVec_add_assign(v, w)

VecSubAssign(v, w) == IF IsXY(v) THEN XYVec_sub_assign(v, w) ELSE XYZVec_sub_assign(v, w)

VecSub(v, w) == IF IsXY(v) THEN XYVec_sub(v, w) ELSE XYZVec_sub(v, w)

\* C16: every `a += w` and `a -= w` step leaves in a the value the pure
\* `a + w` / `a - w` returns for the same operands, so that a sequence of
\* them follows the sequence of pure operators from the same start; `a += w`
\* followed by `a -= w` restores a to its value before the pair.  The first
\* formula is about the steps taken, the second about every operand of a
\* fresh vector, those included whose sum wraps or panics.
C16_AssignRefinesPure ==
    /\ [][ /\ op' \in {"XYVec::add_assign", "XYZVec::add_assign"} =>
                 RetV(VecAdd(a, arg'.other)) = [st |-> "ok", val |-> a']
           /\ op' \in {"XYVec::sub_assign", "XYZVec::sub_assign"} =>
                 RetV(VecSub(a, arg'.other)) = [st |-> "ok", val |-> a']
           /\ ( /\ op \in {"XYVec::add_assign", "XYZVec::add_assign"}
                /\ op' \in {"XYVec::sub_assign", "XYZVec::sub_assign"}
                /\ arg'.other = arg.other ) => a' = arg.before ]_vars
    /\ [](op = "new" =>
             \A w \in Operands :
                 /\ RetV(VecAddAssign(a, w)) = RetV(VecAdd(a, w))
                 /\ RetV(VecSubAssign(a, w)) = RetV(VecSub(a, w))
                 /\ Completed(VecAddAssign(a, w)) =>
                        RetV(VecSubAssign(VecAddAssign(a, w), w)) = [st |-> "ok", val |-> a])

\* C16 witness: a `-=` of a nonzero operand has acted, and adding the operand
\* back gives the value before it.
C16_Witness ==
    /\ op = "XYZVec::sub_assign"
    /\ ~IsZeroVec(arg.other)
    /\ XYZVec_add_assign(a, arg.other) = arg.before

\* C13: on v = (1.0, 2.0, -0.5) and w = (-2.0, 0.5, 0.0) in fixed point,
\* cross_prod returns x = 4.5, y = 0.25, z = 1.0 in that order, and
\* cross_prod_magnitude_sqd returns 21.3125, the l2_norm_sqd of that vector.
C13_CrossProdFixed ==
    (ty = "fixed" /\ a = cross_prod_fixed_v /\ arg = [other |-> cross_prod_fixed_w]) =>
        /\ op = "XYZVec::cross_prod" =>
              out = [st |-> "ok",
                     val |-> XYZVec_new(<<Fin(4 * One + One \div 2), Fin(One \div 4), Fin(One)>>)]
        /\ op = "XYZVec::cross_prod_magnitude_sqd" =>
              /\ out = [st |-> "ok", val |-> Fin(21 * One + 5)]
              /\ out.val = XYZVec_l2_norm_sqd(
                     XYZVec_new(<<Fin(4 * One + One \div 2), Fin(One \div 4), Fin(One)>>))

\* C13 witness: cross_prod_magnitude_sqd has returned 21.3125 for v and w.
C13_Witness ==
    /\ ty = "fixed"
    /\ op = "XYZVec::cross_prod_magnitude_sqd"
    /\ a = cross_prod_fixed_v
    /\ arg = [other |-> cross_prod_fixed_w]
    /\ out.val = Fin(21 * One + 5)

\* C14: for XYVec<f32>, rotated_by(theta) returns the displacement of the
\* rotation, (x*cos - y*sin - x, x*sin + y*cos - y): (1, 0) turned by pi/2
\* gives (-1, 1), by pi (-2, 0), by 2*pi (0, 0), and the zero vector gives
\* the zero vector at every angle.  theta counts quarter turns.
C14_F32RotatedByDisplacement ==
    (ty = "f32" /\ op = "XYVec::rotated_by") =>
        LET x == a.inner[1]
            y == a.inner[2]
            c == Cos(arg.theta)
            s == Sin(arg.theta)
        IN  /\ out.st = "ok"
            /\ out.val.inner[1] = SSub(SSub(SMul(x, c), SMul(y, s)), x)
            /\ out.val.inner[2] = SSub(SAdd(SMul(x, s), SMul(y, c)), y)
            /\ (a.inner = <<Fin(1), Fin(0)>> /\ arg.theta = 1) =>
                   out.val.inner = <<Fin(0 - 1), Fin(1)>>
            /\ (a.inner = <<Fin(1), Fin(0)>> /\ arg.theta = 2) =>
                   out.val.inner = <<Fin(0 - 2), Fin(0)>>
            /\ (a.inner = <<Fin(1), Fin(0)>> /\ arg.theta = 4) =>
                   out.val.inner = <<Fin(0), Fin(0)>>
            /\ a.inner = <<Fin(0), Fin(0)>> => out.val.inner = <<Fin(0), Fin(0)>>

\* C14 witness: the f32 rotated_by has turned (1, 0) by pi/2 into (-1, 1).
C14_Witness ==
    /\ ty = "f32"
    /\ op = "XYVec::rotated_by"
    /\ a.inner = <<Fin(1), Fin(0)>>
    /\ arg.theta = 1
    /\ out.val.inner = <<Fin(0 - 1), Fin(1)>>

\* C15: l1_norm() and sum() return the same value, the signed sum of the
\* components with no absolute value taken (x + y, x + y + z), so that
\* (1, -1) has l1_norm 0.
C15_L1NormIsSignedSum ==
    /\ op \in {"XYVec::l1_norm", "XYVec::sum"} =>
          /\ out = RetS(SAdd(a.inner[1], a.inner[2]))
          /\ out = RetS(XYVec_sum(a))
          /\ out = RetS(XYVec_l1_norm(a))
          /\ (IsFloat /\ a.inner = <<Fin(1), Fin(0 - 1)>>) => out.val = Fin(0)
          /\ (ty = "fixed" /\ a.inner = <<Fin(One), Fin(0 - One - One \div 2)>>) =>
                 out.val = Fin(0 - One \div 2)
    /\ op \in {"XYZVec::l1_norm", "XYZVec::sum"} =>
          /\ out = RetS(SAdd(SAdd(a.inner[1], a.inner[2]), a.inner[3]))
          /\ out = RetS(XYZVec_sum(a))
          /\ out = RetS(XYZVec_l1_norm(a))

\* C15 witness: l1_norm has returned 0 for (1, -1).
C15_Witness ==
    /\ op = "XYVec::l1_norm"
    /\ a.inner = <<Fin(1), Fin(0 - 1)>>
    /\ out = [st |-> "ok", val |-> Fin(0)]

====
